---- MODULE Spec2Model ----
(***************************************************************************)
(* Event registration with capacity slots and merchandise stock.          *)
(*                                                                         *)
(* The model follows the route handlers of backend/src/routes:            *)
(*   normalRegistration.js       POST  /normal/:id/register               *)
(*                               PATCH /:id/payment-proof                 *)
(*   merchandiseRegistration.js  POST  /merch/:id/register                *)
(*   registrationRoutes.js       PATCH /:eventId/registrations/:regId/payment *)
(* Every handler is an async function: between two awaited database       *)
(* operations any other request may run.  A handler is therefore a        *)
(* sequence of steps, one per database operation, each step carrying the  *)
(* local computation that follows the operation up to the next await.     *)
(***************************************************************************)
EXTENDS Integers, Sequences, FiniteSets, TLC

(***************************************************************************)
(* Bounds of the model.                                                    *)
(***************************************************************************)
MaxLimit == 2       \* largest registrationLimit an event is created with
MaxStock == 1       \* stock every merchandise option is created with
MaxReleases == 2    \* reject dispositions that may pass their guard

(***************************************************************************)
(* The documents the handlers work on.                                     *)
(***************************************************************************)
Procs == {"p1", "p2"}                 \* concurrent request handlers
Users == {"u1", "u2", "u3"}           \* participants
EventIds == {"normal", "merch", "solo", "closed"}   \* the Event documents
Owned == {"normal", "merch"}          \* those of the organizer who disposes
NoEvent == "nosuch"                   \* an id no Event document has
\* models/Event.js: merchandiseItems, in definition order
merchandiseItems ==
    [normal |-> <<>>, merch |-> <<"shirt", "cap">>, solo |-> <<"badge">>,
     closed |-> <<>>]
OptionIds == {"M", "L", "C", "B"}
BadOption == "X"                      \* an option id no item has
NoOption == "none"                    \* no selection submitted for the item

\* models/Event.js: eventType
eventType == [normal |-> "normal", merch |-> "merchandise", solo |-> "merchandise",
              closed |-> "normal"]

\* models/Event.js: eligibility; User.js: participantType
eligibility == [normal |-> "iiit", merch |-> "iiit", solo |-> "iiit",
                closed |-> "iiit"]
participantType == [u1 |-> "iiit", u2 |-> "iiit", u3 |-> "non-iiit"]

\* models/Event.js: merchandiseItems[].options[] (ids and prices)
options == [shirt |-> <<"M", "L">>, cap |-> <<"C">>, badge |-> <<"B">>]
price == [M |-> 0, L |-> 200, C |-> 0, B |-> 0]

Range(s) == {s[k] : k \in DOMAIN s}

VARIABLES
    registrationLimit,   \* Event.registrationLimit, per event
    registrationFee,     \* Event.registrationFee, per event
    required,            \* merchandiseItems[].required, per item
    registrationCount,   \* Event.registrationCount, per event
    stock,               \* merchandiseItems[].options[].stock, per option
    registrations,       \* the Registration collection
    call,                \* per handler: its position and its local variables
    response,            \* the answer the last step sent, if it sent one
    snapshot             \* what the call that runs alone started from

vars == <<registrationLimit, registrationFee, required, registrationCount,
          stock, registrations, call, response, snapshot>>

\* the event definition, which no handler of the model writes
eventDef == <<registrationLimit, registrationFee, required>>

(***************************************************************************)
(* Values.                                                                 *)
(***************************************************************************)
NoReg == <<>>                         \* no registration id
NoQR == <<>>                          \* qrCode: ""
\* a generator that returns the empty string
toNothing(t) == NoQR

\* QRCode.toDataURL(ticketId): a data URL that encodes the ticket id
toDataURL(t) == <<"data:image/png">> \o t
\* "FEL-" + crypto.randomBytes(4).toString("hex"): a ticket code no earlier
\* draw produced; n tells apart the draws made for one (event, user) pair
NewTicketId(e, u) ==
    <<"FEL", e, u, Cardinality({r \in registrations :
                                  r.eventId = e /\ r.userId = u})>>
\* the _id the database gives a new Registration document
NewRegId(e, u) ==
    <<"reg", e, u, Cardinality({r \in registrations :
                                  r.eventId = e /\ r.userId = u})>>

RECURSIVE SumPrices(_)
SumPrices(ds) ==
    IF ds = <<>> THEN 0 ELSE price[Head(ds).optionId] + SumPrices(Tail(ds))

(***************************************************************************)
(* A handler at rest, and the local variables of a running one.            *)
(***************************************************************************)
\* no Registration document loaded
NoDoc ==
    [ticketId |-> <<>>, paymentStatus |-> "none", qrCode |-> NoQR,
     merchandiseSelections |-> {}, attended |-> FALSE]

Idle ==
    [pc |-> "idle", op |-> "none", eventId |-> "none", userId |-> "none",
     regId |-> NoReg, i |-> 0, decrementedOptions |-> <<>>, rb |-> 0,
     at |-> "none", message |-> "none", how |-> "none", code |-> 0, doc |-> NoDoc,
     restored |-> {}, input |-> <<>>, mail |-> "none", original |-> "none"]

Free(p) == call[p].pc = "idle"

\* no answer sent by the step
NoResponse ==
    [op |-> "none", eventId |-> "none", userId |-> "none", regId |-> NoReg,
     at |-> "none", message |-> "none", input |-> <<>>, mail |-> "none",
     original |-> "none"]

\* response.status(...).json({message}): the call c has answered, from the
\* return statement of the step it was at
Respond(c, msg) == [c EXCEPT !.pc = "done", !.at = c.pc, !.message = msg]

\* what transporter.sendMail can do
MailOutcomes == {"sent", "failed"}

\* a handler that answers "Server error" when the mail was not sent
NotifyOrFail(c, outcome, msg) ==
    Respond([c EXCEPT !.mail = outcome],
            IF outcome = "failed" THEN "Server error" ELSE msg)

\* sendTicketEmail(...) and the success answer after it: the call is not
\* awaited and sendTicketEmail catches and logs the error of sendMail, so the
\* handler answers msg whatever the outcome
Notify(c, outcome, msg) == Respond([c EXCEPT !.mail = outcome], msg)

\* the answer of the call c
Answer(c) ==
    [op |-> c.op, eventId |-> c.eventId, userId |-> c.userId,
     regId |-> c.regId, at |-> c.at, message |-> c.message, input |-> c.input,
     mail |-> c.mail, original |-> c.original]

\* handler p goes on as c; once c has answered, the handler is at rest again
\* and its local variables are gone
Continue(p, c) ==
    /\ call' = [call EXCEPT ![p] = IF c.pc = "done" THEN Idle ELSE c]
    /\ response' = IF c.pc = "done" THEN Answer(c) ELSE NoResponse

\* what a call starts from: the counters and the Registration collection
Before ==
    [registrationCount |-> registrationCount, stock |-> stock,
     registrations |-> registrations]

(***************************************************************************)
(* The initial state: published events open for registration, no           *)
(* registration yet.  The event solo sells one required item with a single *)
(* option, of which one unit exists.                                       *)
(***************************************************************************)
InitialStock(o) == IF o = "B" THEN 1 ELSE MaxStock

Init ==
    /\ registrationLimit \in {[e \in EventIds |-> n] : n \in 1..MaxLimit}
    /\ registrationFee \in {[normal |-> 0, merch |-> 0, solo |-> 0, closed |-> 0],
                           [normal |-> 500, merch |-> 0, solo |-> 0, closed |-> 0]}
    /\ required \in {[shirt |-> TRUE, cap |-> FALSE, badge |-> TRUE],
                    [shirt |-> TRUE, cap |-> TRUE, badge |-> TRUE]}
    /\ registrationCount = [e \in EventIds |-> 0]
    /\ stock = [o \in OptionIds |-> InitialStock(o)]
    /\ registrations = {}
    /\ call = [p \in Procs |-> Idle]
    /\ response = NoResponse
    /\ snapshot = Before

(***************************************************************************)
(* Inventory store: the conditional updates of the two register routes.    *)
(***************************************************************************)
\* the same filter with $lte in place of $lt
CapacityAvailableAtLimit(e) == registrationCount[e] <= registrationLimit[e]

\* the same update with no condition on registrationCount
CapacityAvailableAlways(e) == e \in EventIds

\* Event.findOneAndUpdate({_id, registrationCount: {$lt: limit}}, {$inc: 1})
CapacityAvailable(e) == registrationCount[e] < registrationLimit[e]

\* a release that is never sent
ReleaseNothing(e) == registrationCount

\* Event.findByIdAndUpdate(_id, {$inc: {registrationCount: -1}})
ReleaseCapacity(e) == [registrationCount EXCEPT ![e] = @ - 1]

\* The filter of the stock update names three conditions on array fields
\* without $elemMatch:
\*     "merchandiseItems._id": item, "merchandiseItems.options._id": option,
\*     "merchandiseItems.options.stock": {$gt: 0}
\* MongoDB matches each against any element of the arrays, so the document
\* matches when the item exists, the option exists in some item, and some
\* option of some item of the event has stock > 0.
OptionsOf(e) ==
    UNION {Range(options[merchandiseItems[e][k]]) : k \in DOMAIN merchandiseItems[e]}

StockFilterMatches(e, item, o) ==
    /\ item \in Range(merchandiseItems[e])
    /\ o \in OptionsOf(e)
    /\ \E x \in OptionsOf(e) : stock[x] > 0

\* {$inc: {"merchandiseItems.$[item].options.$[opt].stock": n}} with
\* arrayFilters item._id = item, opt._id = o
IncStock(st, item, o, n) ==
    IF o \in Range(options[item]) THEN [st EXCEPT ![o] = @ + n] ELSE st

\* a rollback update that matches no option
IncStockNowhere(st, item, o, n) == st

\* a rollback update that matches every option of the item
IncStockWholeItem(st, item, o, n) ==
    [x \in DOMAIN st |-> IF x \in Range(options[item]) THEN st[x] + n ELSE st[x]]

\* {$inc: {"merchandiseItems.$.options.$[opt].stock": 1}} with the filter
\* "merchandiseItems._id": item and arrayFilters opt._id = o: $ is the
\* position of the item the filter matched
IncStockPositional(st, item, o, n) ==
    IF o \in Range(options[item]) THEN [st EXCEPT ![o] = @ + n] ELSE st

(***************************************************************************)
(* Registration ledger.                                                    *)
(***************************************************************************)
\* Registration.findOne({eventId, userId})
findOne(e, u) == {r \in registrations : r.eventId = e /\ r.userId = u}

\* a collection with the unique index on ticketId only
UniqueTicketOnly(e, u, t) == \A r \in registrations : r.ticketId # t

\* the unique indexes: {eventId, userId} and ticketId
UniqueIndexes(e, u, t) ==
    /\ \A r \in registrations : ~(r.eventId = e /\ r.userId = u)
    /\ \A r \in registrations : r.ticketId # t

\* the document Registration.create stores (schema defaults filled in)
NewRegistration(e, u, t, qr, status, selections, amount) ==
    [id |-> NewRegId(e, u), eventId |-> e, userId |-> u, ticketId |-> t,
     qrCode |-> qr, paymentStatus |-> status,
     merchandiseSelections |-> selections, amountPaid |-> amount,
     paymentProof |-> FALSE, attended |-> FALSE, attendedAt |-> "null",
     releases |-> 0, restores |-> 0]

(***************************************************************************)
(* Eligibility and window checks (steps 1 to 4 of both register routes).   *)
(***************************************************************************)
registrationOpen == [normal |-> TRUE, merch |-> TRUE, solo |-> TRUE, closed |-> FALSE]

checkEligibility(e, u) ==
    IF eligibility[e] = "iiit" /\ participantType[u] # "iiit"
    THEN "This event is for IIIT participants only"
    ELSE IF eligibility[e] = "non-iiit" /\ participantType[u] # "non-iiit"
    THEN "This event is for Non-IIIT participants only"
    ELSE "null"

RegisterChecks(route, e, u, deadlinePassed) ==
    IF e \notin EventIds THEN "Event not found"
    ELSE IF ~registrationOpen[e] THEN "Registration is not open for this event"
    ELSE IF eventType[e] # route THEN "This route is for " \o route \o " events only"
    ELSE IF checkEligibility(e, u) # "null" THEN checkEligibility(e, u)
    ELSE IF deadlinePassed THEN "Registration deadline passed"
    ELSE "ok"

(***************************************************************************)
(* A request arrives.  alone = TRUE admits it only while no other handler  *)
(* runs, and then records the counters it starts from.                     *)
(***************************************************************************)
Admit(p, alone) ==
    /\ Free(p)
    /\ alone => \A q \in Procs : Free(q)
    /\ snapshot' = IF alone THEN Before ELSE snapshot

(***************************************************************************)
(* POST /normal/:id/register                                               *)
(***************************************************************************)
\* steps 1 to 4: Event.findById, User.findById and the checks on them
NormalBegin(p, alone, e, u, deadlinePassed) ==
    /\ Admit(p, alone)
    /\   LET c == [Idle EXCEPT !.op = "normal", !.eventId = e, !.userId = u]
             err == RegisterChecks("normal", e, u, deadlinePassed)
         IN  Continue(p, IF err = "ok" THEN [c EXCEPT !.pc = "findOne"]
                         ELSE Respond(c, err))
    /\ UNCHANGED <<eventDef, registrationCount, stock, registrations>>

\* step 5: Registration.findOne
NormalFindOne(p) ==
    /\ call[p].op = "normal" /\ call[p].pc = "findOne"
    /\ LET c == call[p] IN
       Continue(p, IF findOne(c.eventId, c.userId) # {}
                   THEN Respond(c, "Already registered")
                   ELSE [c EXCEPT !.pc = "reserve"])
    /\ UNCHANGED <<eventDef, registrationCount, stock, registrations, snapshot>>

\* step 6: the conditional increment of registrationCount
NormalReserve(p) ==
    /\ call[p].op = "normal" /\ call[p].pc = "reserve"
    /\ LET c == call[p] IN
         IF CapacityAvailable(c.eventId)
         THEN /\ registrationCount' = [registrationCount EXCEPT ![c.eventId] = @ + 1]
              /\ Continue(p, [c EXCEPT !.pc = "create"])
         ELSE /\ Continue(p, Respond(c, "Event is full"))
              /\ UNCHANGED registrationCount
    /\ UNCHANGED <<eventDef, stock, registrations, snapshot>>

\* steps 7 to 13: the required form field (customForm holds one), the ticket
\* id drawn, the QR code of a free event, and Registration.create, which
\* fails on a unique index (code 11000) or with an error of the store
NormalCreate(p, ticketId, storageFails) ==
    /\ call[p].op = "normal" /\ call[p].pc = "create"
    /\ \E fieldGiven \in BOOLEAN,
          outcome \in IF registrationFee[call[p].eventId] > 0 THEN {"none"}
                      ELSE MailOutcomes :
         LET c == call[p]
             e == c.eventId
             u == c.userId
             qrCode == IF registrationFee[e] = 0 THEN toDataURL(ticketId) ELSE NoQR
             paymentStatus == IF registrationFee[e] > 0 THEN "pending"
                              ELSE "not_required"
             amountPaid == registrationFee[e]
         IN  IF ~fieldGiven
             THEN /\ Continue(p, Respond(c, "Required field missing"))
                  /\ UNCHANGED registrations
             ELSE IF storageFails
             THEN /\ Continue(p, [c EXCEPT !.pc = "createFailed", !.code = 1])
                  /\ UNCHANGED registrations
             ELSE IF UniqueIndexes(e, u, ticketId)
             THEN /\ registrations' = registrations \cup
                        {NewRegistration(e, u, ticketId, qrCode, paymentStatus,
                                         {}, amountPaid)}
                  /\ Continue(p, Notify([c EXCEPT !.regId = NewRegId(e, u)],
                                        outcome, "201"))
             ELSE /\ Continue(p, [c EXCEPT !.pc = "createFailed", !.code = 11000])
                  /\ UNCHANGED registrations
    /\ UNCHANGED <<eventDef, registrationCount, stock, snapshot>>

\* what the catch of Registration.create answers
CreateError(code) == IF code = 11000 THEN "Already registered" ELSE "Server error"

\* the catch of Registration.create: give the slot back, then answer
NormalCreateFailed(p) ==
    /\ call[p].op = "normal" /\ call[p].pc = "createFailed"
    /\ registrationCount' = ReleaseCapacity(call[p].eventId)
    /\ Continue(p, Respond(call[p], CreateError(call[p].code)))
    /\ UNCHANGED <<eventDef, stock, registrations, snapshot>>

(***************************************************************************)
(* POST /merch/:id/register                                                *)
(***************************************************************************)
\* steps 1 to 4: Event.findById, User.findById and the checks on them
MerchBegin(p, alone, e, u, deadlinePassed) ==
    /\ Admit(p, alone)
    /\   LET c == [Idle EXCEPT !.op = "merch", !.eventId = e, !.userId = u]
             err == RegisterChecks("merchandise", e, u, deadlinePassed)
         IN  Continue(p, IF err = "ok" THEN [c EXCEPT !.pc = "findOne"]
                         ELSE Respond(c, err))
    /\ UNCHANGED <<eventDef, registrationCount, stock, registrations>>

\* step 5: Registration.findOne
MerchFindOne(p) ==
    /\ call[p].op = "merch" /\ call[p].pc = "findOne"
    /\ LET c == call[p] IN
       Continue(p, IF findOne(c.eventId, c.userId) # {}
                   THEN Respond(c, "Already registered")
                   ELSE [c EXCEPT !.pc = "preCheck"])
    /\ UNCHANGED <<eventDef, registrationCount, stock, registrations, snapshot>>

\* step 6: a required item none of whose options has stock left
SoldOut(item) == required[item] /\ \A o \in Range(options[item]) : ~(stock[o] > 0)

\* a pre-check that runs with the slot already taken
MerchPreCheckReserving(p) ==
    /\ call[p].op = "merch" /\ call[p].pc = "preCheck"
    /\ registrationCount' = [registrationCount EXCEPT ![call[p].eventId] = @ + 1]
    /\ LET c == call[p] IN
       Continue(p, IF \E k \in DOMAIN merchandiseItems[c.eventId] :
                            SoldOut(merchandiseItems[c.eventId][k])
                   THEN Respond(c, "Required item is completely sold out")
                   ELSE [c EXCEPT !.pc = "reserve"])
    /\ UNCHANGED <<eventDef, stock, registrations, snapshot>>

\* step 6: Event.findById again, for the live stock
MerchPreCheck(p) ==
    /\ call[p].op = "merch" /\ call[p].pc = "preCheck"
    /\ LET c == call[p] IN
       Continue(p, IF \E k \in DOMAIN merchandiseItems[c.eventId] :
                            SoldOut(merchandiseItems[c.eventId][k])
                   THEN Respond(c, "Required item is completely sold out")
                   ELSE [c EXCEPT !.pc = "reserve"])
    /\ UNCHANGED <<eventDef, registrationCount, stock, registrations, snapshot>>

\* step 7: the conditional increment of registrationCount
MerchReserve(p) ==
    /\ call[p].op = "merch" /\ call[p].pc = "reserve"
    /\ LET c == call[p] IN
         IF CapacityAvailable(c.eventId)
         THEN /\ registrationCount' = [registrationCount EXCEPT ![c.eventId] = @ + 1]
              /\ Continue(p, [c EXCEPT !.pc = "select", !.i = 1])
         ELSE /\ Continue(p, Respond(c, "Event is full"))
              /\ UNCHANGED registrationCount
    /\ UNCHANGED <<eventDef, stock, registrations, snapshot>>

\* where the loop over merchandiseItems goes after item i
NextItem(c) ==
    IF c.i < Len(merchandiseItems[c.eventId]) THEN [c EXCEPT !.i = @ + 1]
    ELSE [c EXCEPT !.pc = "create", !.i = 0]

\* a return inside the loop: first the rollback of what this call decremented
\* (how = "positional" or "filtered", the update the branch uses)
Fail(c, msg, how) ==
    [c EXCEPT !.pc = "rollback", !.rb = 1, !.message = msg, !.how = how]

\* step 8, one iteration: selections[itemId] of the request body, the checks
\* on it, and the conditional decrement of the option's stock
MerchSelect(p) ==
    /\ call[p].op = "merch" /\ call[p].pc = "select"
    /\ LET c == call[p]
           item == merchandiseItems[c.eventId][c.i]
       IN
       \E selectedOptionId \in Range(options[item]) \cup {NoOption, BadOption} :
         IF required[item] /\ selectedOptionId = NoOption
         THEN /\ Continue(p, Fail(c, "Required item not selected", "positional"))
              /\ UNCHANGED stock
         ELSE IF selectedOptionId = NoOption
         THEN /\ Continue(p, NextItem(c))
              /\ UNCHANGED stock
         ELSE IF selectedOptionId \notin Range(options[item])
         THEN /\ Continue(p, Fail(c, "Invalid option", "positional"))
              /\ UNCHANGED stock
         ELSE IF StockFilterMatches(c.eventId, item, selectedOptionId)
         THEN /\ stock' = IncStock(stock, item, selectedOptionId, -1)
              /\ Continue(p, NextItem([c EXCEPT !.decrementedOptions =
                                Append(@, [itemId |-> item,
                                           optionId |-> selectedOptionId])]))
         ELSE /\ Continue(p, Fail(c, "Out of stock", "filtered"))
              /\ UNCHANGED stock
    /\ UNCHANGED <<eventDef, registrationCount, registrations, snapshot>>

\* the rollback loops of step 8: one increment per entry of
\* decrementedOptions, then the slot, then the answer
MerchRollback(p) ==
    /\ call[p].op = "merch" /\ call[p].pc = "rollback"
    /\ LET c == call[p] IN
         IF c.rb <= Len(c.decrementedOptions)
         THEN LET d == c.decrementedOptions[c.rb] IN
              /\ stock' = IF c.how = "positional"
                          THEN IncStockPositional(stock, d.itemId, d.optionId, 1)
                          ELSE IncStock(stock, d.itemId, d.optionId, 1)
              /\ Continue(p, [c EXCEPT !.rb = @ + 1])
              /\ UNCHANGED registrationCount
         ELSE /\ registrationCount' = ReleaseCapacity(c.eventId)
              /\ Continue(p, Respond(c, c.message))
              /\ UNCHANGED stock
    /\ UNCHANGED <<eventDef, registrations, snapshot>>

\* processedSelections: what the loop recorded for the items it decremented
processedSelections(ds) == Range(ds)

\* steps 9 to 12: the amount, the ticket id drawn, the QR code of a free
\* registration, and Registration.create, which fails on a unique index
\* (code 11000) or with an error of the store
MerchCreate(p, ticketId, storageFails) ==
    /\ call[p].op = "merch" /\ call[p].pc = "create"
    /\ LET c == call[p]
           e == c.eventId
           u == c.userId
           amountPaid == registrationFee[e] + SumPrices(c.decrementedOptions)
           paymentStatus == IF amountPaid > 0 THEN "pending" ELSE "not_required"
           qrCode == IF amountPaid > 0 THEN NoQR ELSE toDataURL(ticketId)
       IN  IF storageFails
           THEN /\ Continue(p, [c EXCEPT !.pc = "createFailed", !.rb = 0,
                                         !.code = 1])
                /\ UNCHANGED registrations
           ELSE IF UniqueIndexes(e, u, ticketId)
           THEN /\ registrations' = registrations \cup
                      {NewRegistration(e, u, ticketId, qrCode, paymentStatus,
                          processedSelections(c.decrementedOptions), amountPaid)}
                /\ \E outcome \in IF amountPaid > 0 THEN {"none"}
                                   ELSE MailOutcomes :
                     Continue(p, Notify([c EXCEPT !.regId = NewRegId(e, u)],
                                        outcome, "201"))
           ELSE /\ Continue(p, [c EXCEPT !.pc = "createFailed", !.rb = 0,
                                         !.code = 11000])
                /\ UNCHANGED registrations
    /\ UNCHANGED <<eventDef, registrationCount, stock, snapshot>>

\* the catch of Registration.create: the slot, then one increment per entry
\* of decrementedOptions, then the answer
MerchCreateFailed(p) ==
    /\ call[p].op = "merch" /\ call[p].pc = "createFailed"
    /\ LET c == call[p] IN
         IF c.rb = 0
         THEN /\ registrationCount' = ReleaseCapacity(c.eventId)
              /\ Continue(p, IF c.decrementedOptions = <<>>
                             THEN Respond(c, CreateError(c.code))
                             ELSE [c EXCEPT !.rb = 1])
              /\ UNCHANGED stock
         ELSE LET d == c.decrementedOptions[c.rb] IN
              /\ stock' = IncStock(stock, d.itemId, d.optionId, 1)
              /\ Continue(p, IF c.rb = Len(c.decrementedOptions)
                             THEN Respond(c, CreateError(c.code))
                             ELSE [c EXCEPT !.rb = @ + 1])
              /\ UNCHANGED registrationCount
    /\ UNCHANGED <<eventDef, registrations, snapshot>>

(***************************************************************************)
(* PATCH /:eventId/registrations/:regId/payment                            *)
(* The organizer owns the events of Owned, so findOrganizerAndEvent passes *)
(* for either of their ids in the path.                                    *)
(***************************************************************************)
\* what Registration.findById loads into the handler
Load(r) ==
    [ticketId |-> r.ticketId, paymentStatus |-> r.paymentStatus,
     qrCode |-> r.qrCode, merchandiseSelections |-> r.merchandiseSelections,
     attended |-> r.attended]

\* a save that also writes an empty merchandiseSelections
SaveClearing(id, paths) ==
    {IF r.id = id
     THEN [x \in DOMAIN r |-> IF x \in DOMAIN paths THEN paths[x]
                              ELSE IF x = "merchandiseSelections" THEN {}
                              ELSE r[x]]
     ELSE r : r \in registrations}

\* registration.save(): $set of the paths the handler modified
Save(id, paths) ==
    {IF r.id = id
     THEN [x \in DOMAIN r |-> IF x \in DOMAIN paths THEN paths[x] ELSE r[x]]
     ELSE r : r \in registrations}

\* the reject dispositions that are past their guard and before their release
Releasing == {q \in Procs : call[q].pc \in {"rejectSave", "rejectCount"}}

RECURSIVE Total(_)
Total(rs) ==
    IF rs = {} THEN 0
    ELSE LET r == CHOOSE x \in rs : TRUE IN r.releases + Total(rs \ {r})

\* the request, findOrganizerAndEvent, Registration.findById and the guard
\* on previousStatus
PaymentBegin(p, alone) ==
    /\ Admit(p, alone)
    /\ \E e \in Owned, r \in registrations, action \in {"approve", "reject"} :
         LET c == [Idle EXCEPT !.op = action, !.eventId = e, !.regId = r.id]
             previousStatus == r.paymentStatus
         IN  /\ (action = "reject" /\ previousStatus # "rejected")
                   => Total(registrations) + Cardinality(Releasing) < MaxReleases
             /\ Continue(p,
                  IF action = "approve"
                  THEN IF previousStatus = "approved"
                       THEN Respond(c, "Already approved")
                       ELSE [c EXCEPT !.pc = "approveSave", !.doc = Load(r)]
                  ELSE IF previousStatus = "rejected"
                       THEN Respond(c, "Already rejected")
                       ELSE [c EXCEPT !.pc = "rejectSave", !.doc = Load(r)])
    /\ UNCHANGED <<eventDef, registrationCount, stock, registrations>>

\* approve: paymentStatus, the QR code if the loaded document had none, save
ApproveSave(p) ==
    /\ call[p].pc = "approveSave"
    /\ LET doc == call[p].doc IN
       registrations' = Save(call[p].regId,
           IF doc.qrCode = NoQR
           THEN [paymentStatus |-> "approved", qrCode |-> toDataURL(doc.ticketId)]
           ELSE [paymentStatus |-> "approved"])
    /\ \E outcome \in MailOutcomes :
         Continue(p, Notify(call[p], outcome, "Payment approved"))
    /\ UNCHANGED <<eventDef, registrationCount, stock, snapshot>>

\* reject: paymentStatus, qrCode = "" (a modified path only if the loaded
\* document had one), save
RejectSave(p) ==
    /\ call[p].pc = "rejectSave"
    /\ LET doc == call[p].doc IN
       registrations' = Save(call[p].regId,
           IF doc.qrCode # NoQR
           THEN [paymentStatus |-> "rejected", qrCode |-> NoQR]
           ELSE [paymentStatus |-> "rejected"])
    /\ Continue(p, [call[p] EXCEPT !.pc = "rejectCount"])
    /\ UNCHANGED <<eventDef, registrationCount, stock, snapshot>>

\* reject: Event.findByIdAndUpdate(params.eventId, {$inc: {registrationCount: -1}})
\* (releases counts, per registration, the times its slot was given back)
RejectCount(p) ==
    /\ call[p].pc = "rejectCount"
    /\ registrationCount' = ReleaseCapacity(call[p].eventId)
    /\ registrations' =
         {IF r.id = call[p].regId THEN [r EXCEPT !.releases = @ + 1] ELSE r :
            r \in registrations}
    /\ Continue(p, [call[p] EXCEPT !.pc = "rejectFind"])
    /\ UNCHANGED <<eventDef, stock, snapshot>>

\* reject: Event.findById(params.eventId), then option.stock + 1 in memory
\* for every selection whose item and option the loaded event holds
RejectFind(p) ==
    /\ call[p].pc = "rejectFind"
    /\ LET c == call[p] IN
       Continue(p,
         IF eventType[c.eventId] = "merchandise"
         THEN [c EXCEPT !.pc = "rejectSaveEvent",
                        !.restored =
                           {[optionId |-> sel.optionId,
                             stock |-> stock[sel.optionId] + 1] :
                              sel \in {x \in c.doc.merchandiseSelections :
                                  /\ x.itemId \in Range(merchandiseItems[c.eventId])
                                  /\ x.optionId \in Range(options[x.itemId])}}]
         ELSE Respond(c, "Payment rejectd"))
    /\ UNCHANGED <<eventDef, registrationCount, stock, registrations, snapshot>>

\* reject: event.save(), a $set of each stock value computed in memory, and
\* the answer `Payment ${action}d`
\* (restores counts, per registration, the times its units were given back)
RejectSaveEvent(p) ==
    /\ call[p].pc = "rejectSaveEvent"
    /\ registrations' =
         {IF r.id = call[p].regId THEN [r EXCEPT !.restores = @ + 1] ELSE r :
            r \in registrations}
    /\ stock' = [o \in OptionIds |->
                   IF \E w \in call[p].restored : w.optionId = o
                   THEN (CHOOSE w \in call[p].restored : w.optionId = o).stock
                   ELSE stock[o]]
    /\ Continue(p, Respond(call[p], "Payment rejectd"))
    /\ UNCHANGED <<eventDef, registrationCount, snapshot>>

(***************************************************************************)
(* PATCH /:id/payment-proof                                                *)
(***************************************************************************)
\* the request (with a paymentProof), Registration.findOne and the guard on
\* paymentStatus
ProofBegin(p, alone, u) ==
    /\ Admit(p, alone)
    /\ \E e \in EventIds :
         LET c == [Idle EXCEPT !.op = "proof", !.eventId = e, !.userId = u]
             found == findOne(e, u)
         IN  Continue(p,
               IF found = {}
               THEN Respond(c, "Not registered")
               ELSE LET r == CHOOSE x \in found : TRUE IN
                    IF r.paymentStatus # "pending" /\ r.paymentStatus # "rejected"
                    THEN Respond([c EXCEPT !.regId = r.id],
                           "Payment proof cannot be uploaded for this registration")
                    ELSE [c EXCEPT !.pc = "proofSave", !.regId = r.id,
                                   !.doc = Load(r)])
    /\ UNCHANGED <<eventDef, registrationCount, stock, registrations>>

\* an upload that stores the proof and leaves paymentStatus as it is
ProofSaveOnly(p) ==
    /\ call[p].pc = "proofSave"
    /\ registrations' = Save(call[p].regId, [paymentProof |-> TRUE])
    /\ Continue(p, Respond(call[p], "Payment proof uploaded"))
    /\ UNCHANGED <<eventDef, registrationCount, stock, snapshot>>

\* paymentProof, paymentStatus back to pending if it was loaded rejected, save
ProofSave(p) ==
    /\ call[p].pc = "proofSave"
    /\ registrations' = Save(call[p].regId,
           IF call[p].doc.paymentStatus = "rejected"
           THEN [paymentProof |-> TRUE, paymentStatus |-> "pending"]
           ELSE [paymentProof |-> TRUE])
    /\ Continue(p, Respond(call[p], "Payment proof uploaded"))
    /\ UNCHANGED <<eventDef, registrationCount, stock, snapshot>>

(***************************************************************************)
(* POST /:id/scan                                                          *)
(***************************************************************************)
\* models/Event.js: status of the events of the model
eventStatus == [e \in EventIds |-> "published"]

\* models/Event.js: startDate, endDate (the merchandise event is held on the
\* day after the others)
startDate == [normal |-> 2, merch |-> 3, solo |-> 2, closed |-> 2]
endDate == [normal |-> 2, merch |-> 3, solo |-> 2, closed |-> 2]

\* new Date() of a request: a day before every event, the day of the first
\* events, the day of the merchandise event
Times == 1..3

\* eventHelpers.js: computeStatus
computeStatus(e, now) ==
    IF eventStatus[e] = "draft" THEN eventStatus[e]
    ELSE IF now >= startDate[e] /\ now <= endDate[e] THEN "ongoing"
    ELSE IF now > endDate[e] THEN "completed"
    ELSE eventStatus[e]

NoTicket == <<>>                      \* no ticketId in the request body
BadTicket == <<"FEL", "bogus">>       \* a ticket code no registration has

\* a check-in with the payment neither settled nor waived
PaymentOpenPendingOnly(r) == r.paymentStatus = "pending"

\* paymentStatus === "pending" || paymentStatus === "rejected"
PaymentOpen(r) == r.paymentStatus = "pending" \/ r.paymentStatus = "rejected"

\* the request (input: its time and its ticketId), findOrganizerAndEvent,
\* computeStatus, Registration.findOne({eventId, ticketId}) and the guards
ScanBegin(p, alone) ==
    /\ Admit(p, alone)
    /\ \E e \in EventIds, now \in Times,
          ticketId \in {NoTicket, BadTicket} \cup {r.ticketId : r \in registrations} :
         LET c == [Idle EXCEPT !.op = "scan", !.eventId = e,
                               !.input = <<now, ticketId>>]
             found == {r \in registrations : r.eventId = e /\ r.ticketId = ticketId}
         IN  Continue(p,
               IF e \notin Owned THEN Respond(c, "Not your event")
               ELSE IF computeStatus(e, now) # "ongoing"
               THEN Respond(c, "Attendance can only be taken while the event is ongoing")
               ELSE IF ticketId = NoTicket THEN Respond(c, "Ticket ID required")
               ELSE IF found = {} THEN Respond(c, "Invalid ticket")
               ELSE LET r == CHOOSE x \in found : TRUE
                        d == [c EXCEPT !.regId = r.id]
                    IN  IF PaymentOpen(r) THEN Respond(d, "Payment not approved")
                        ELSE IF r.attended THEN Respond(d, "Already checked in")
                        ELSE [d EXCEPT !.pc = "scanSave", !.doc = Load(r)])
    /\ UNCHANGED <<eventDef, registrationCount, stock, registrations>>

\* attended = true, attendedAt = new Date(), save
ScanSave(p) ==
    /\ call[p].pc = "scanSave"
    /\ registrations' = Save(call[p].regId, [attended |-> TRUE, attendedAt |-> "now"])
    /\ Continue(p, Respond(call[p], "Checked in"))
    /\ UNCHANGED <<eventDef, registrationCount, stock, snapshot>>

(***************************************************************************)
(* Specifications.                                                         *)
(***************************************************************************)
\* the participants the checks of steps 1 to 4 let through
Eligible == {u \in Users : participantType[u] = "iiit"}

\* a register request that passes the checks of steps 1 to 4
Register(p, alone, users) ==
    \E u \in users :
        \/ NormalBegin(p, alone, "normal", u, FALSE)
        \/ MerchBegin(p, alone, "merch", u, FALSE)

\* the ticket id a call draws: one no registration holds
Fresh(p) == {NewTicketId(call[p].eventId, call[p].userId)}
\* or, with probability 2^-32 for each, the one of an earlier registration
Drawn(p) == Fresh(p) \cup {r.ticketId : r \in registrations}

\* the steps of a running register call; faults admits the create that fails
\* on a ticket id drawn twice or on an error of the store
RegisterStep(p, faults) ==
    \/ NormalFindOne(p) \/ NormalReserve(p)
    \/ \E t \in IF faults THEN Drawn(p) ELSE Fresh(p),
          storageFails \in IF faults THEN BOOLEAN ELSE {FALSE} :
            NormalCreate(p, t, storageFails) \/ MerchCreate(p, t, storageFails)
    \/ NormalCreateFailed(p)
    \/ MerchFindOne(p) \/ MerchPreCheck(p) \/ MerchReserve(p) \/ MerchSelect(p)
    \/ MerchRollback(p) \/ MerchCreateFailed(p)

\* the steps of a running payment disposition or payment-proof upload
PaymentStep(p) ==
    \/ ApproveSave(p) \/ RejectSave(p) \/ RejectCount(p) \/ RejectFind(p)
    \/ RejectSaveEvent(p) \/ ProofSave(p)

\* register calls of both routes, handled concurrently by the handlers of Procs
Next ==
    \E p \in Procs : Register(p, FALSE, Eligible) \/ RegisterStep(p, FALSE)

Spec == Init /\ [][Next]_vars

\* the handler of the requests that arrive one at a time
Single == {"p1"}

\* register calls one at a time: a request is admitted only when the one
\* before has been answered
SeqNext ==
    \E p \in Single : Register(p, TRUE, Eligible) \/ RegisterStep(p, TRUE)

SpecSeq == Init /\ [][SeqNext]_vars

\* register calls of one participant, the dispositions of the organizer and
\* the payment-proof uploads of the participant, one at a time
PayNext ==
    \E p \in Single :
        \/ Register(p, TRUE, {"u1"}) \/ RegisterStep(p, TRUE)
        \/ PaymentBegin(p, TRUE) \/ ProofBegin(p, TRUE, "u1")
        \/ PaymentStep(p)

SpecPay == Init /\ [][PayNext]_vars

(***************************************************************************)
(* Properties of the register routes under concurrent calls (Spec).        *)
(***************************************************************************)
RegistrationsOf(e) == {r \in registrations : r.eventId = e}

\* C1: no oversell of capacity. In every state reachable by concurrent
\* register calls of either route, successful or failed, the
\* registrationCount of an event never exceeds its registrationLimit.
C1_NoOversell ==
    \A e \in EventIds : registrationCount[e] <= registrationLimit[e]

\* a call is refused "Event is full" while the event holds exactly
\* registrationLimit slots
C1_Witness ==
    /\ response.message = "Event is full"
    /\ registrationCount[response.eventId] = registrationLimit[response.eventId]

\* C2: with register calls only, the number of Registration documents of an
\* event never exceeds its registrationLimit.
C2_RegistrationsWithinLimit ==
    \A e \in EventIds : Cardinality(RegistrationsOf(e)) <= registrationLimit[e]

\* a create has just stored the Registration that fills the event
C2_Witness ==
    /\ response.message = "201"
    /\ Cardinality(RegistrationsOf(response.eventId))
         = registrationLimit[response.eventId]

\* C4: the stock reservation decrements the selected option only while that
\* option has stock left, so no option's stock is ever negative.
C4_StockNeverNegative == \A o \in OptionIds : stock[o] >= 0

(***************************************************************************)
(* Exactly-once registration (Spec).                                       *)
(***************************************************************************)
\* the refusals a request earns by its own body, whatever other calls do
BodyRefusals ==
    {"Required field missing", "Required item not selected", "Invalid option"}

\* the refusals a call earns when others hold the last slot or the last units
ExhaustedRefusals ==
    {"Event is full", "Out of stock", "Required item is completely sold out"}

\* the register call that has just answered was refused although its body
\* was acceptable, and a Registration of its (eventId, userId) pair exists
LostToSamePair ==
    /\ response.op \in {"normal", "merch"}
    /\ response.message \notin BodyRefusals \cup {"201", "none"}
    /\ findOne(response.eventId, response.userId) # {}

\* the entries of decrementedOptions a running call has not given back
Unrestored(c) == {k \in DOMAIN c.decrementedOptions : k >= c.rb}

\* the units of option o that running merchandise calls hold
InFlight(o) ==
    Cardinality({<<p, k>> \in Procs \X (1..Cardinality(OptionIds)) :
        /\ k \in Unrestored(call[p])
        /\ call[p].decrementedOptions[k].optionId = o})

\* the running merchandise calls that hold a slot
HoldingSlot ==
    {p \in Procs : /\ call[p].op = "merch"
                   /\ \/ call[p].pc \in {"select", "create", "rollback"}
                      \/ call[p].pc = "createFailed" /\ call[p].rb = 0}

\* the Registrations whose merchandiseSelections hold option o
Holders(o) ==
    {r \in registrations : \E sel \in r.merchandiseSelections : sel.optionId = o}

\* the counters of the merchandise event are those of the Registrations that
\* exist and of the calls still running: a call that ended without a
\* Registration has left nothing behind
OnlyCreatorsCount ==
    /\ registrationCount["merch"]
         = Cardinality(RegistrationsOf("merch")) + Cardinality(HoldingSlot)
    /\ \A o \in OptionIds :
         stock[o] = InitialStock(o) - Cardinality(Holders(o)) - InFlight(o)

AtMostOnePerPair ==
    \A e \in EventIds, u \in Users : Cardinality(findOne(e, u)) <= 1

FailedAfterReserving ==
    /\ response.op \in {"merch", "normal"}
    /\ response.at \in {"rollback", "createFailed"}

\* C6: rollback completeness. A register call that runs alone and fails in the
\* selection loop or at Registration.create, after reserving the slot and
\* k >= 0 option units, leaves registrationCount and the stock of every
\* option as they were before the call.
C6_RollbackComplete ==
    FailedAfterReserving =>
        /\ registrationCount = snapshot.registrationCount
        /\ stock = snapshot.stock

\* a merchandise call has reserved a unit of the first item, failed on the
\* second item and answered (the first item is required, so the loop passes
\* it only by a decrement)
C6_Witness ==
    /\ response.op = "merch" /\ response.at = "rollback"
    /\ response.message \in {"Required item not selected", "Out of stock"}
    /\ response.eventId = "merch" /\ required["cap"]
    /\ \E o \in Range(options["shirt"]) : snapshot.stock[o] > 0
    /\ registrations = snapshot.registrations

\* C7: a normal register call refused for a missing required form field
\* leaves registrationCount as it was before the call.
C7_RequiredFieldKeepsCount ==
    response.message = "Required field missing" =>
        registrationCount = snapshot.registrationCount

(***************************************************************************)
(* Payment dispositions, one request at a time (SpecPay).                  *)
(***************************************************************************)
\* the Registration of id before the call that has just answered, and now
Was(id) == CHOOSE r \in snapshot.registrations : r.id = id
Now(id) == CHOOSE r \in registrations : r.id = id

\* a payment disposition has just answered
Disposed ==
    /\ response.op \in {"approve", "reject"}
    /\ response.message # "none"

\* the Registrations that hold option o and whose units were never given back
LiveHolders(o) == {r \in Holders(o) : r.restores = 0}

\* C3: conservation per option. Current stock, plus the Registrations that
\* hold the option and whose claim has not been released, plus the units
\* running register calls hold, equals the initial stock.
C3_Conservation ==
    \A o \in OptionIds :
        stock[o] + Cardinality(LiveHolders(o)) + InFlight(o) = InitialStock(o)

\* C8: a reject of a pending registration sets paymentStatus to rejected,
\* takes exactly 1 from the registrationCount of the event that owns the
\* registration, and adds exactly 1 to the stock of each option in its
\* merchandiseSelections and of no other.
C8_RejectPending ==
    (/\ Disposed /\ response.op = "reject"
     /\ Was(response.regId).paymentStatus = "pending")
    => LET r == Now(response.regId) IN
       /\ r.paymentStatus = "rejected"
       /\ registrationCount[r.eventId] = snapshot.registrationCount[r.eventId] - 1
       /\ \A o \in OptionIds :
            stock[o] = snapshot.stock[o] + IF r \in Holders(o) THEN 1 ELSE 0

\* C9: the slot and the units of a registration are released at most once.
C9_ReleasedAtMostOnce ==
    /\ \A r \in registrations : r.releases <= 1 /\ r.restores <= 1
    /\ (Disposed /\ response.message = "Already rejected") =>
           /\ registrationCount = snapshot.registrationCount
           /\ stock = snapshot.stock

\* C10: a disposition on an approved registration is refused with "Already
\* approved" and changes neither the registration nor a counter.
C10_ApprovedIsFinal ==
    (Disposed /\ Was(response.regId).paymentStatus = "approved")
    => /\ response.message = "Already approved"
       /\ registrations = snapshot.registrations
       /\ registrationCount = snapshot.registrationCount
       /\ stock = snapshot.stock

(***************************************************************************)
(* Payment-proof upload (SpecPay).                                         *)
(***************************************************************************)
\* a payment-proof upload on a rejected registration has just answered
ReuploadedAfterReject ==
    /\ response.op = "proof"
    /\ response.message = "Payment proof uploaded"
    /\ Was(response.regId).paymentStatus = "rejected"

\* C11: a payment-proof upload on a rejected registration returns it to
\* pending, keeps its id, ticketId and merchandiseSelections, and leaves
\* registrationCount and every option stock unchanged.
C11_ReuploadFrame ==
    ReuploadedAfterReject =>
        LET was == Was(response.regId)
            now == Now(response.regId)
        IN  /\ now.paymentStatus = "pending"
            /\ {r.id : r \in registrations} = {r.id : r \in snapshot.registrations}
            /\ now.ticketId = was.ticketId
            /\ now.merchandiseSelections = was.merchandiseSelections
            /\ registrationCount = snapshot.registrationCount
            /\ stock = snapshot.stock

\* the upload answered for a rejected merchandise registration that holds
\* selections
C11_Witness ==
    /\ ReuploadedAfterReject
    /\ Was(response.regId).merchandiseSelections # {}

(***************************************************************************)
(* Slot accounting and the range of registrationCount (SpecPay).           *)
(***************************************************************************)
\* no handler is running
Quiescent == \A p \in Procs : Free(p)

\* the Registrations of event e that are not rejected
Live(e) ==
    {r \in RegistrationsOf(e) :
        r.paymentStatus \in {"not_required", "pending", "approved"}}

\* C12: slot accounting. In every quiescent state the Registrations of an
\* event whose paymentStatus is not_required, pending or approved number at
\* most registrationCount, and therefore at most registrationLimit.
C12_SlotAccounting ==
    Quiescent =>
        \A e \in EventIds :
            /\ Cardinality(Live(e)) <= registrationCount[e]
            /\ Cardinality(Live(e)) <= registrationLimit[e]

\* C13: registrationCount stays within 0..registrationLimit.
C13_CountInRange ==
    \A e \in EventIds :
        0 <= registrationCount[e] /\ registrationCount[e] <= registrationLimit[e]

(***************************************************************************)
(* Dispositions and uploads served concurrently (SpecRace): the organizer  *)
(* and the participant send requests while earlier ones are still running. *)
(***************************************************************************)
\* one participant registers for the normal event; then dispositions and
\* uploads run on the handlers of Procs in any interleaving
RaceNext ==
    \E p \in Procs :
        \/ NormalBegin(p, TRUE, "normal", "u1", FALSE)
        \/ NormalFindOne(p) \/ NormalReserve(p)
        \/ \E t \in Fresh(p) : NormalCreate(p, t, FALSE)
        \/ PaymentBegin(p, FALSE) \/ ProofBegin(p, FALSE, "u1")
        \/ PaymentStep(p)

SpecRace == Init /\ [][RaceNext]_vars

\* C14: ticket artifact gating. A Registration whose paymentStatus is pending
\* or rejected has an empty qrCode.
C14_QrGating ==
    \A r \in registrations :
        r.paymentStatus \in {"pending", "rejected"} => r.qrCode = NoQR

(***************************************************************************)
(* Scenario A (SpecScenarioA): a free normal event, each eligible          *)
(* participant registering with a complete form, all calls concurrent.     *)
(***************************************************************************)
\* the normal event is free
ScenarioAInit == Init /\ registrationFee["normal"] = 0

\* participant u has neither a Registration of event e nor a call running
NotYetIn(e, u) ==
    /\ findOne(e, u) = {}
    /\ \A q \in Procs : call[q].userId # u

ScenarioANext ==
    \E p \in Procs :
        \/ \E u \in Eligible :
             NotYetIn("normal", u) /\ NormalBegin(p, FALSE, "normal", u, FALSE)
        \/ NormalFindOne(p) \/ NormalReserve(p)
        \/ \E t \in Fresh(p) :
             NormalCreate(p, t, FALSE) /\ response'.message = "201"

SpecScenarioA == ScenarioAInit /\ [][ScenarioANext]_vars

\* the normal register calls that hold a slot and have not created yet
NormalHoldingSlot ==
    {p \in Procs : call[p].op = "normal" /\ call[p].pc = "create"}

\* what holds in every state of the scenario
ScenarioAState ==
    LET regs == RegistrationsOf("normal")
        N == registrationLimit["normal"]
    IN  /\ response.message \in {"none", "201", "Event is full"}
        /\ response.message = "Event is full" => registrationCount["normal"] = N
        /\ response.message = "201" =>
             LET r == Now(response.regId) IN
             /\ r.userId = response.userId
             /\ r.paymentStatus = "not_required"
             /\ r.ticketId # <<>>
        /\ Cardinality(regs) <= N
        /\ \A r \in regs : r.paymentStatus = "not_required"
        /\ registrationCount["normal"]
             = Cardinality(regs) + Cardinality(NormalHoldingSlot)

\* C15: Scenario A generalised. Every call answers with a Registration
\* (not_required, with a ticketId) or with "Event is full"; a call is
\* refused only while all N slots are taken; taken slots are never given
\* back and each becomes a Registration, so of k participants exactly
\* min(k, N) are registered and registrationCount ends at min(k, N).
C15_ScenarioA ==
    /\ []ScenarioAState
    /\ [][registrationCount'["normal"] >= registrationCount["normal"]]_vars

\* limit 1, two participants: one holds the Registration, the other has just
\* been refused, and registrationCount is 1
C15_Witness ==
    /\ response.message = "Event is full"
    /\ registrationLimit["normal"] = 1
    /\ Cardinality(RegistrationsOf("normal")) = 1
    /\ registrationCount["normal"] = 1
    /\ Quiescent

(***************************************************************************)
(* Scenario B (SpecScenarioB): the event solo, whose one required item has *)
(* one option with one unit, registrationLimit >= 2, each participant      *)
(* selecting that option, all calls concurrent.                            *)
(***************************************************************************)
ScenarioBInit == Init /\ registrationLimit["solo"] >= 2

ScenarioBNext ==
    \E p \in Procs :
        \/ \E u \in Eligible :
             NotYetIn("solo", u) /\ MerchBegin(p, FALSE, "solo", u, FALSE)
        \/ MerchFindOne(p) \/ MerchPreCheck(p) \/ MerchReserve(p)
        \/ /\ MerchSelect(p)
           /\ call'[p].message \notin {"Required item not selected", "Invalid option"}
        \/ MerchRollback(p)
        \/ \E t \in Fresh(p) : MerchCreate(p, t, FALSE)

SpecScenarioB == ScenarioBInit /\ [][ScenarioBNext]_vars

\* the running register calls of event e that hold a slot
SlotHolders(e) ==
    {p \in Procs : /\ call[p].eventId = e
                   /\ call[p].pc \in {"select", "create", "rollback"}}

\* the two refusals for want of stock: at the decrement and at the pre-check
NoStockRefusals == {"Out of stock", "Required item is completely sold out"}

\* C16: Scenario B. Every call answers with a Registration or with an
\* out-of-stock refusal; a call is refused only when the unit is gone; the
\* unit is never sold twice and never lost; and registrationCount counts the
\* Registrations and the calls still holding a slot, so that once both calls
\* have answered one Registration exists, stock is 0 and registrationCount
\* is 1.
C16_ScenarioB ==
    LET regs == RegistrationsOf("solo") IN
    /\ response.message \in {"none", "201"} \cup NoStockRefusals
    /\ response.message \in NoStockRefusals => stock["B"] = 0
    /\ stock["B"] >= 0
    /\ stock["B"] + Cardinality(regs) + InFlight("B") = 1
    /\ \A r \in regs : r.merchandiseSelections = {[itemId |-> "badge", optionId |-> "B"]}
    /\ registrationCount["solo"]
         = Cardinality(regs) + Cardinality(SlotHolders("solo"))
    /\ (Quiescent /\ stock["B"] = 0) =>
         Cardinality(regs) = 1 /\ registrationCount["solo"] = 1

\* the loser reserved a slot, found the unit gone, gave the slot back and was
\* refused; the winner's Registration exists, stock is 0, registrationCount 1
C16_Witness ==
    /\ response.message = "Out of stock" /\ response.at = "rollback"
    /\ Quiescent
    /\ Cardinality(RegistrationsOf("solo")) = 1
    /\ stock["B"] = 0
    /\ registrationCount["solo"] = 1

(***************************************************************************)
(* Ticket scans (SpecScan): one participant registers for the normal       *)
(* event, the organizer disposes and scans under the id of either of the   *)
(* events, one request at a time.                                          *)
(***************************************************************************)
ScanNext ==
    \E p \in Single :
        \/ NormalBegin(p, TRUE, "normal", "u1", FALSE)
        \/ NormalFindOne(p) \/ NormalReserve(p)
        \/ \E t \in Fresh(p) : NormalCreate(p, t, FALSE)
        \/ PaymentBegin(p, TRUE)
        \/ ApproveSave(p) \/ RejectSave(p) \/ RejectCount(p) \/ RejectFind(p)
        \/ RejectSaveEvent(p)
        \/ ScanBegin(p, TRUE) \/ ScanSave(p)

SpecScan == Init /\ [][ScanNext]_vars

\* the Registrations the scan that has just answered could find
Scannable ==
    {r \in snapshot.registrations :
        r.eventId = response.eventId /\ r.ticketId = response.input[2]}

\* event e is ongoing at the time now
During(e, now) == startDate[e] <= now /\ now <= endDate[e]

\* what a scan of an organizer's own event has to answer
ScanAnswer ==
    IF ~During(response.eventId, response.input[1])
    THEN "Attendance can only be taken while the event is ongoing"
    ELSE IF response.input[2] = NoTicket THEN "Ticket ID required"
    ELSE IF Scannable = {} THEN "Invalid ticket"
    ELSE LET r == CHOOSE x \in Scannable : TRUE IN
         IF r.paymentStatus \in {"pending", "rejected"} THEN "Payment not approved"
         ELSE IF r.attended THEN "Already checked in"
         ELSE "Checked in"

\* C17: a scan succeeds only when the event is ongoing, a Registration with
\* the ticketId exists for the event, its paymentStatus is neither pending
\* nor rejected and attended is false; otherwise it fails with "Invalid
\* ticket", "Payment not approved" or "Already checked in", tested in that
\* order; a failed scan changes nothing; a successful scan sets attended and
\* attendedAt and nothing else.
C17_Scan ==
    (response.op = "scan" /\ response.eventId \in Owned) =>
        /\ response.message = ScanAnswer
        /\ registrationCount = snapshot.registrationCount
        /\ stock = snapshot.stock
        /\ IF response.message = "Checked in"
           THEN registrations =
                  {IF r \in Scannable
                   THEN [r EXCEPT !.attended = TRUE, !.attendedAt = "now"]
                   ELSE r : r \in snapshot.registrations}
           ELSE registrations = snapshot.registrations

\* the second scan of a ticket is refused: its Registration was checked in
\* by a scan before
C17_Witness ==
    /\ response.op = "scan"
    /\ response.message = "Already checked in"
    /\ Now(response.regId).attendedAt = "now"

(***************************************************************************)
(* The payment state machine (SpecPay).                                    *)
(***************************************************************************)
\* the transitions of paymentStatus the state machine has
PaymentEdges ==
    {<<"pending", "approved">>, <<"pending", "rejected">>, <<"rejected", "pending">>}

\* C18: payment state machine. Since the request in service began, the
\* paymentStatus of a Registration has stayed or moved along pending ->
\* approved, pending -> rejected (dispositions) or rejected -> pending
\* (upload); an upload on a not_required or approved registration is refused.
C18_PaymentStateMachine ==
    /\ \A was \in snapshot.registrations :
         \A now \in registrations :
            now.id = was.id =>
               \/ now.paymentStatus = was.paymentStatus
               \/ /\ <<was.paymentStatus, now.paymentStatus>> \in PaymentEdges
                  /\ now.paymentStatus = "pending" <=> response.op = "proof"
    /\ (/\ response.op = "proof" /\ response.regId # NoReg
        /\ Was(response.regId).paymentStatus \in {"not_required", "approved"})
       => /\ response.message
               = "Payment proof cannot be uploaded for this registration"
          /\ registrations = snapshot.registrations

(***************************************************************************)
(* The Registration as created (SpecSeq: register calls only).             *)
(***************************************************************************)
RECURSIVE PriceOf(_)
\* the sum of the prices of a set of selections
PriceOf(sels) ==
    IF sels = {} THEN 0
    ELSE LET x == CHOOSE y \in sels : TRUE
         IN  price[x.optionId] + PriceOf(sels \ {x})

\* C19: a Registration is created not_required if and only if its amountPaid,
\* the registration fee plus the prices of the selected options, is 0, and
\* pending otherwise; one created with amountPaid 0 has the qrCode generated
\* from its ticketId, one created pending has none.
C19_StatusAtCreation ==
    \A r \in registrations :
        /\ r.amountPaid = registrationFee[r.eventId] + PriceOf(r.merchandiseSelections)
        /\ r.paymentStatus = IF r.amountPaid = 0 THEN "not_required" ELSE "pending"
        /\ r.amountPaid = 0 => r.qrCode # NoQR /\ r.qrCode = toDataURL(r.ticketId)
        /\ r.amountPaid # 0 => r.qrCode = NoQR

\* the four cases exist side by side: a free and a paid Registration of the
\* normal event for different participants is impossible (one fee), so: a
\* normal Registration and a merchandise Registration, one pending, one
\* not_required
C19_Witness ==
    /\ response.message = "201"
    /\ \E r \in registrations : r.paymentStatus = "pending" /\ r.qrCode = NoQR
    /\ \E r \in registrations :
         /\ r.eventId = "merch" /\ r.merchandiseSelections # {}
         /\ r.paymentStatus = "not_required" /\ r.qrCode # NoQR

(***************************************************************************)
(* The notification (SpecPay: one call at a time, snapshot taken when the  *)
(* call began).                                                            *)
(***************************************************************************)
\* the call that has just answered tried to send the ticket and sendMail failed
MailFailed == response.mail = "failed"

\* C20: when sendTicketEmail fails after a successful register or approve,
\* the caller still gets the success answer, the Registration is there as
\* created (not_required, with its QR) or as approved, and the slot and the
\* stock taken by the call are still taken: no counter went back.
C20_MailFailureHarmless ==
    MailFailed =>
        /\ response.message \in {"201", "Payment approved"}
        /\ \E r \in registrations :
             /\ r.id = response.regId
             /\ r.qrCode = toDataURL(r.ticketId)
             /\ \A o \in OptionIds : stock[o] <= snapshot.stock[o]
             /\ IF response.message = "201"
                THEN /\ r \notin snapshot.registrations
                     /\ r.eventId = response.eventId /\ r.userId = response.userId
                     /\ r.paymentStatus = "not_required"
                     /\ registrationCount =
                          [snapshot.registrationCount EXCEPT ![r.eventId] = @ + 1]
                     /\ r.merchandiseSelections # {} => stock # snapshot.stock
                ELSE /\ r.paymentStatus = "approved"
                     /\ registrationCount = snapshot.registrationCount
                     /\ stock = snapshot.stock

\* an approval of a pending Registration whose ticket mail failed
C20_Witness ==
    /\ MailFailed
    /\ response.message = "Payment approved"
    /\ Was(response.regId).paymentStatus = "pending"
    /\ Now(response.regId).paymentStatus = "approved"

(***************************************************************************)
(* Rejects and merchandise register calls served concurrently (SpecLost):  *)
(* the merchandise event with two units of shirt option L, participants    *)
(* who send well-formed selections, the organizer disposing of payments    *)
(* while register calls run.                                               *)
(***************************************************************************)
\* the units of shirt option L the event was created with: one more than
\* the other options have
StockOfL == MaxStock + 1

LostInit ==
    /\ registrationLimit = [e \in EventIds |-> MaxLimit]
    /\ registrationFee = [e \in EventIds |-> 0]
    /\ required = [shirt |-> TRUE, cap |-> FALSE, badge |-> TRUE]
    /\ registrationCount = [e \in EventIds |-> 0]
    /\ stock = [o \in OptionIds |-> IF o = "L" THEN StockOfL ELSE InitialStock(o)]
    /\ registrations = {}
    /\ call = [p \in Procs |-> Idle]
    /\ response = NoResponse
    /\ snapshot = Before

LostNext ==
    \E p \in Procs :
        \/ \E u \in {"u1", "u2"} :
             NotYetIn("merch", u) /\ MerchBegin(p, FALSE, "merch", u, FALSE)
        \/ MerchFindOne(p) \/ MerchPreCheck(p) \/ MerchReserve(p)
        \/ /\ MerchSelect(p)
           /\ call'[p].message \notin {"Required item not selected", "Invalid option"}
        \/ \E t \in Fresh(p) : MerchCreate(p, t, FALSE)
        \/ PaymentBegin(p, FALSE)
        \/ ApproveSave(p) \/ RejectSave(p) \/ RejectCount(p) \/ RejectFind(p)
        \/ RejectSaveEvent(p)

SpecLost == LostInit /\ [][LostNext]_vars

RECURSIVE Restores(_)
\* the times the units of the Registrations rs were given back
Restores(rs) ==
    IF rs = {} THEN 0
    ELSE LET r == CHOOSE x \in rs : TRUE IN r.restores + Restores(rs \ {r})

\* C21: no update of a stock counter is lost. The stock of each option is
\* the initial stock, minus one per Registration that reserved the option,
\* minus the units running register calls hold, plus one per release of a
\* Registration that reserved it; snapshot is the state the event started in.
C21_NoLostUpdate ==
    \A o \in OptionIds :
        stock[o] = snapshot.stock[o] - Cardinality(Holders(o)) - InFlight(o)
                       + Restores(Holders(o))

(***************************************************************************)
(* The compensating releases of concurrent register calls (Spec).          *)
(***************************************************************************)
\* handler p is in a rollback: the loops of step 8 or the catch of
\* Registration.create
RollingBack(p) ==
    /\ call[p].op = "merch"
    /\ call[p].pc \in {"rollback", "createFailed"}

\* C22: every step of a rollback either gives one unit to the option of the
\* entry of decrementedOptions the loop is at, an option this call decremented,
\* and leaves every other option alone, or (the release of the slot) leaves
\* the stock alone; the loop goes through the entries one by one.
C22_RollbackPrecise ==
    [][\A p \in Procs :
         (RollingBack(p) /\ call'[p] # call[p]) =>
            LET c == call[p] IN
            IF c.rb \in DOMAIN c.decrementedOptions
            THEN /\ stock' = [stock EXCEPT ![c.decrementedOptions[c.rb].optionId] = @ + 1]
                 /\ \/ call'[p].pc = c.pc /\ call'[p].rb = c.rb + 1
                    \/ call'[p] = Idle /\ c.rb = Len(c.decrementedOptions)
            ELSE stock' = stock]_vars

\* a rollback has given back the first of the units its call took, while
\* another call holds a unit it reserved
C22_Witness ==
    \E p, q \in Procs :
        /\ p # q
        /\ RollingBack(p) /\ call[p].rb = 2 /\ call[p].how = "positional"
        /\ Unrestored(call[q]) # {} /\ ~RollingBack(q)

(***************************************************************************)
(* Register calls in which QRCode.toDataURL fails (SpecFault).             *)
(***************************************************************************)
\* step 10 of the normal route: QRCode.toDataURL(ticketId) of a free event
\* rejects; the await throws to the outer catch, which answers 500
NormalQrFails(p) ==
    /\ call[p].op = "normal" /\ call[p].pc = "create"
    /\ registrationFee[call[p].eventId] = 0
    /\ Continue(p, Respond(call[p], "Server error"))
    /\ UNCHANGED <<eventDef, registrationCount, stock, registrations, snapshot>>

\* step 11 of the merchandise route: the same for a registration that
\* costs nothing
MerchQrFails(p) ==
    /\ call[p].op = "merch" /\ call[p].pc = "create"
    /\ ~(registrationFee[call[p].eventId] + SumPrices(call[p].decrementedOptions) > 0)
    /\ Continue(p, Respond(call[p], "Server error"))
    /\ UNCHANGED <<eventDef, registrationCount, stock, registrations, snapshot>>

\* register calls one at a time, with the create faults and the QR faults
FaultNext ==
    \E p \in Single :
        \/ Register(p, TRUE, Eligible) \/ RegisterStep(p, TRUE)
        \/ NormalQrFails(p) \/ MerchQrFails(p)

SpecFault == Init /\ [][FaultNext]_vars

\* a register call has answered an error from a step after its reservation
\* of the slot (the missing required form field is the case of C7)
ErrorAfterSlot ==
    /\ response.op \in {"normal", "merch"}
    /\ response.at \in {"create", "rollback", "createFailed"}
    /\ response.message \notin {"201", "Required field missing"}

\* C23: whatever fails after the slot was reserved, once the call has
\* answered its error registrationCount and every option stock are what they
\* were before the call.
C23_EveryFailureReleases ==
    ErrorAfterSlot =>
        /\ registrationCount = snapshot.registrationCount
        /\ stock = snapshot.stock

(***************************************************************************)
(* Register requests of every kind, one at a time (SpecEarly): any event   *)
(* id, any participant, either route, before or after the deadline.        *)
(***************************************************************************)
EarlyNext ==
    \E p \in Single :
        \/ \E e \in EventIds \cup {NoEvent}, u \in Users, deadlinePassed \in BOOLEAN :
             \/ NormalBegin(p, TRUE, e, u, deadlinePassed)
             \/ MerchBegin(p, TRUE, e, u, deadlinePassed)
        \/ NormalFindOne(p) \/ NormalReserve(p)
        \/ MerchFindOne(p) \/ MerchPreCheck(p) \/ MerchReserve(p)
        \/ MerchSelect(p) \/ MerchRollback(p)
        \/ \E t \in Fresh(p) : NormalCreate(p, t, FALSE) \/ MerchCreate(p, t, FALSE)

SpecEarly == Init /\ [][EarlyNext]_vars

\* the answers of the steps before the reservation of the slot
EarlyRefusals ==
    {"Event not found", "Registration is not open for this event",
     "This route is for normal events only",
     "This route is for merchandise events only",
     "This event is for IIIT participants only", "Registration deadline passed",
     "Already registered", "Required item is completely sold out"}

\* a register call was refused before it reached the reservation of the slot
RefusedEarly ==
    /\ response.op \in {"normal", "merch"}
    /\ response.at \in {"idle", "findOne", "preCheck"}

\* C24: a register call refused before the reservation step has written
\* nothing: registrationCount, every option stock and the Registrations are
\* what they were when the call began, and its answer is one of the refusals
\* of steps 1 to 6.
C24_EarlyFailureWritesNothing ==
    RefusedEarly =>
        /\ response.message \in EarlyRefusals
        /\ registrationCount = snapshot.registrationCount
        /\ stock = snapshot.stock
        /\ registrations = snapshot.registrations

\* the merchandise route refused a participant because the required item of
\* the event has no unit left, other participants holding them
C24_Witness ==
    /\ RefusedEarly
    /\ response.message = "Required item is completely sold out"
    /\ registrations # {}
    /\ \E o \in OptionIds : stock[o] < InitialStock(o)

(***************************************************************************)
(* Register calls whose compensating release fails (SpecRelease).          *)
(***************************************************************************)
\* the error a call in a rollback is about to answer
OriginalError(c) == IF c.pc = "rollback" THEN c.message ELSE CreateError(c.code)

\* the catch of Registration.create on the normal route: the release
\* Event.findByIdAndUpdate(..., {$inc: {registrationCount: -1}}) rejects
\* inside the catch block; the error goes to the outer catch, which answers
\* 500 (original records the error the call was handling)
NormalReleaseFails(p) ==
    /\ call[p].op = "normal" /\ call[p].pc = "createFailed"
    /\ Continue(p, Respond([call[p] EXCEPT !.original = OriginalError(call[p])],
                           "Server error"))
    /\ UNCHANGED <<eventDef, registrationCount, stock, registrations, snapshot>>

\* the same on the merchandise route, for any of the release updates of the
\* loops of step 8 and of the catch of Registration.create
MerchReleaseFails(p) ==
    /\ call[p].op = "merch" /\ call[p].pc \in {"rollback", "createFailed"}
    /\ Continue(p, Respond([call[p] EXCEPT !.original = OriginalError(call[p])],
                           "Server error"))
    /\ UNCHANGED <<eventDef, registrationCount, stock, registrations, snapshot>>

\* no earlier call has left a slot or a unit behind
NothingLeaked ==
    /\ \A e \in EventIds :
          snapshot.registrationCount[e]
              = Cardinality({r \in snapshot.registrations : r.eventId = e})
    /\ \A o \in OptionIds :
          snapshot.stock[o] = InitialStock(o)
              - Cardinality({r \in snapshot.registrations :
                               \E sel \in r.merchandiseSelections : sel.optionId = o})

\* register calls one at a time, with the create faults and, until a first
\* call has left a slot or a unit behind, the release faults
ReleaseNext ==
    \E p \in Single :
        \/ Register(p, TRUE, Eligible) \/ RegisterStep(p, TRUE)
        \/ NothingLeaked /\ (NormalReleaseFails(p) \/ MerchReleaseFails(p))

SpecRelease == Init /\ [][ReleaseNext]_vars

\* C25: a call whose compensating release failed answers the error it was
\* rolling back for, not the error of the release.
C25_OriginalErrorSurvives ==
    response.original # "none" => response.message = response.original

(***************************************************************************)
(* The answer "Already registered" (SpecSeq).                              *)
(***************************************************************************)
\* C26: a register call answers "Already registered" only when a
\* Registration of the same event and participant exists.
C26_AlreadyRegisteredIsTrue ==
    (/\ response.op \in {"normal", "merch"}
     /\ response.message = "Already registered")
    => findOne(response.eventId, response.userId) # {}

(***************************************************************************)
(* The event a disposition acts on (SpecPay).                              *)
(***************************************************************************)
\* C27: a payment disposition of Registration R changes no counter of an
\* event other than R.eventId: the registrationCount of every other event
\* and the stock of every option of another event's items are what they
\* were before the call.
C27_OnlyOwnEvent ==
    Disposed =>
        LET r == Now(response.regId) IN
        /\ \A e \in EventIds \ {r.eventId} :
             registrationCount[e] = snapshot.registrationCount[e]
        /\ \A o \in OptionIds \ OptionsOf(r.eventId) :
             stock[o] = snapshot.stock[o]

(***************************************************************************)
(* POST /:eventId/registrations/:regId/checkin, the manual override        *)
(* (SpecCheckin: registration, dispositions, scans and overrides, one at  *)
(* a time).                                                                *)
(***************************************************************************)
NoSuchReg == <<"nosuch", "nosuch">>    \* an id no Registration has

\* the request, findOrganizerAndEvent, computeStatus, Registration.findById
\* and the guard on paymentStatus
CheckinBegin(p, alone) ==
    /\ Admit(p, alone)
    /\ \E e \in EventIds, now \in Times,
          id \in {NoSuchReg} \cup {r.id : r \in registrations} :
         LET c == [Idle EXCEPT !.op = "checkin", !.eventId = e,
                               !.input = <<now, id>>]
             found == {r \in registrations : r.id = id}
         IN  Continue(p,
               IF e \notin Owned THEN Respond(c, "Not your event")
               ELSE IF computeStatus(e, now) # "ongoing"
               THEN Respond(c, "Attendance can only be taken while the event is ongoing")
               ELSE IF found = {} THEN Respond(c, "Registration not found")
               ELSE LET r == CHOOSE x \in found : TRUE
                        d == [c EXCEPT !.regId = r.id]
                    IN  IF PaymentOpen(r) THEN Respond(d, "Payment not approved")
                        ELSE [d EXCEPT !.pc = "checkinSave", !.doc = Load(r)])
    /\ UNCHANGED <<eventDef, registrationCount, stock, registrations>>

\* attended = !attended, attendedAt = attended ? new Date() : null, save,
\* and the answer
CheckinSave(p) ==
    /\ call[p].pc = "checkinSave"
    /\ LET attended == ~call[p].doc.attended IN
       /\ registrations' = Save(call[p].regId,
              [attended |-> attended,
               attendedAt |-> IF attended THEN "now" ELSE "null"])
       /\ Continue(p, Respond(call[p], IF attended THEN "Checked in manually"
                                       ELSE "Check-in reverted"))
    /\ UNCHANGED <<eventDef, registrationCount, stock, snapshot>>

CheckinNext ==
    \E p \in Single :
        \/ NormalBegin(p, TRUE, "normal", "u1", FALSE)
        \/ NormalFindOne(p) \/ NormalReserve(p)
        \/ \E t \in Fresh(p) : NormalCreate(p, t, FALSE)
        \/ PaymentBegin(p, TRUE) \/ ProofBegin(p, TRUE, "u1")
        \/ PaymentStep(p)
        \/ ScanBegin(p, TRUE) \/ ScanSave(p)
        \/ CheckinBegin(p, TRUE) \/ CheckinSave(p)

SpecCheckin == Init /\ [][CheckinNext]_vars

\* an override of an organizer's own event, naming a Registration, has answered
Overridden ==
    /\ response.op = "checkin" /\ response.eventId \in Owned
    /\ response.input[2] # NoSuchReg

\* C28: attended and attendedAt agree in every Registration; an override
\* that is let through flips attended (so two in a row give the value back)
\* and sets or clears attendedAt with it, nothing else; an override while
\* paymentStatus is pending or rejected, or while the event of the
\* Registration is not ongoing, is refused and changes nothing.
C28_OverrideToggles ==
    /\ \A r \in registrations : r.attended <=> r.attendedAt # "null"
    /\ Overridden =>
         LET w == Was(response.input[2])
             let == response.message \in {"Checked in manually", "Check-in reverted"}
         IN
         /\ registrationCount = snapshot.registrationCount
         /\ stock = snapshot.stock
         /\ (\/ ~During(w.eventId, response.input[1])
             \/ w.paymentStatus \in {"pending", "rejected"}) => ~let
         /\ IF let
            THEN /\ response.message = IF w.attended THEN "Check-in reverted"
                                       ELSE "Checked in manually"
                 /\ registrations =
                      (snapshot.registrations \ {w}) \cup
                        {[w EXCEPT !.attended = ~w.attended,
                                   !.attendedAt = IF w.attended THEN "null"
                                                  ELSE "now"]}
            ELSE registrations = snapshot.registrations

\* C29: a Registration with attended = true has paymentStatus not_required
\* or approved.
C29_AttendedIsPaid ==
    \A r \in registrations :
        r.attended => r.paymentStatus \in {"not_required", "approved"}

(***************************************************************************)
(* What the later operations leave alone (SpecFrame: a merchandise         *)
(* registration, then dispositions, uploads, scans and overrides, one at   *)
(* a time).                                                                *)
(***************************************************************************)
FrameNext ==
    \E p \in Single :
        \/ MerchBegin(p, TRUE, "merch", "u1", FALSE)
        \/ MerchFindOne(p) \/ MerchPreCheck(p) \/ MerchReserve(p)
        \/ /\ MerchSelect(p)
           /\ call'[p].message \notin {"Required item not selected", "Invalid option"}
        \/ \E t \in Fresh(p) : MerchCreate(p, t, FALSE)
        \/ PaymentBegin(p, TRUE) \/ ProofBegin(p, TRUE, "u1")
        \/ PaymentStep(p)
        \/ ScanBegin(p, TRUE) \/ ScanSave(p)
        \/ CheckinBegin(p, TRUE) \/ CheckinSave(p)

SpecFrame == Init /\ [][FrameNext]_vars

\* what is fixed at creation, for each Registration of rs
Identity(rs) ==
    {[id |-> r.id, eventId |-> r.eventId, userId |-> r.userId,
      ticketId |-> r.ticketId, merchandiseSelections |-> r.merchandiseSelections] :
        r \in rs}

\* C30: an approve, reject, payment-proof upload, scan or manual check-in
\* leaves the eventId, userId, ticketId and merchandiseSelections of every
\* Registration as they were, and an approve leaves registrationCount and
\* every option stock as they were.
C30_FixedAtCreation ==
    response.op \in {"approve", "reject", "proof", "scan", "checkin"} =>
        /\ Identity(registrations) = Identity(snapshot.registrations)
        /\ response.op = "approve" =>
             /\ registrationCount = snapshot.registrationCount
             /\ stock = snapshot.stock

\* a pending merchandise Registration has just been approved
C30_Witness ==
    /\ response.op = "approve" /\ response.message = "Payment approved"
    /\ Was(response.regId).paymentStatus = "pending"
    /\ Now(response.regId).paymentStatus = "approved"
    /\ Now(response.regId).merchandiseSelections # {}

====
